---- MODULE Spec2Model ----
(***************************************************************************)
(* A model of the medical-case generator (src/generating_cases.py) and of   *)
(* the inference pipeline that reads its corpus (src/main.py).             *)
(*                                                                         *)
(* Specifications:                                                         *)
(*   Spec         a run of generate_cases_parallel                         *)
(*   SpecFaulty   the same, with a save_cases call that may raise          *)
(*   SpecCrash    the same, killed once and started again                  *)
(*   SpecFn       validate_case, parse_case_response, validate_diagnosis,  *)
(*                each applied to one argument                             *)
(*   SpecGen      a call of generate_unique_diseases; SpecGenLive adds     *)
(*                that the call goes on running                            *)
(*   SpecMain     a run of main, the inference pipeline                    *)
(*                                                                         *)
(* Text is a Python str: a sequence of characters.  The two field names    *)
(* and the placeholder sentence are single symbols of the alphabet (they   *)
(* stand for the words as they occur, unbroken, in a text); everything     *)
(* else is one symbol per character.  Indices are 1-based, so Python's     *)
(* "not found" (-1) is 0 here and s[a:b+1] is SubSeq(s, a, b).             *)
(*                                                                         *)
(* A value a function computes once and reads several times (a local of    *)
(* the Python code) is the parameter of a helper operator that holds the   *)
(* rest of the function, rather than a LET, so that it is written once.    *)
(***************************************************************************)
EXTENDS Integers, Sequences, FiniteSets, TLC

QUOTE == "\""
NL == "\n"
TAB == "\t"
SP == " "
LBRACE == "{"
RBRACE == "}"
COLON == ":"
COMMA == ","
KV == "doctor_vignette"
KD == "actual_diagnosis"
KVU == "DOCTOR_VIGNETTE"
KDU == "ACTUAL_DIAGNOSIS"
FAILED == "Failed to generate vignette."

(***************************************************************************)
(* Python values: None, str, int and dict, tagged.  A dict is a function   *)
(* from its keys (texts) to values.                                        *)
(***************************************************************************)
NoneV == [t |-> "None", v |-> <<>>]
Str(s) == [t |-> "str", v |-> s]
Num(d) == [t |-> "int", v |-> d]
Dict(f) == [t |-> "dict", v |-> f]
List(x) == [t |-> "list", v |-> x]
EmptyFn == <<>>

(***************************************************************************)
(* str methods                                                             *)
(***************************************************************************)
\* the characters str.strip() with no argument removes
PyWhitespace == {SP, TAB, NL}

\* str.lower(), one character
lowerChar(c) ==
  CASE c = "A" -> "a"
    [] c = "B" -> "b"
    [] c = KVU -> KV
    [] c = KDU -> KD
    [] OTHER -> c

\* str.lower()
lower(s) == [i \in 1..Len(s) |-> lowerChar(s[i])]

\* str.find(c) for a one-character c: the first index, 0 when absent
find(s, c) ==
  IF \E i \in 1..Len(s) : s[i] = c
  THEN CHOOSE i \in 1..Len(s) : s[i] = c /\ \A j \in 1..(i-1) : s[j] # c
  ELSE 0

\* str.rfind(c) for a one-character c: the last index, 0 when absent
rfind(s, c) ==
  IF \E i \in 1..Len(s) : s[i] = c
  THEN CHOOSE i \in 1..Len(s) : s[i] = c /\ \A j \in (i+1)..Len(s) : s[j] # c
  ELSE 0

\* needle in hay
Contains(hay, needle) ==
  \E i \in 0..(Len(hay) - Len(needle)) :
     \A k \in 1..Len(needle) : hay[i + k] = needle[k]

RECURSIVE lstrip(_, _)
lstrip(s, chars) ==
  IF s # <<>> /\ Head(s) \in chars THEN lstrip(Tail(s), chars) ELSE s

RECURSIVE rstrip(_, _)
rstrip(s, chars) ==
  IF s # <<>> /\ s[Len(s)] \in chars
  THEN rstrip(SubSeq(s, 1, Len(s) - 1), chars)
  ELSE s

\* str.strip(chars)
strip(s, chars) == rstrip(lstrip(s, chars), chars)

\* str.split(sep) for a one-character sep: always at least one piece
RECURSIVE split(_, _)
split(s, sep) ==
  LET i == find(s, sep)
  IN  IF i = 0 THEN <<s>>
      ELSE <<SubSeq(s, 1, i - 1)>> \o split(SubSeq(s, i + 1, Len(s)), sep)

\* str.splitlines(): as split on the line break, without a last empty piece
splitlines(s) ==
  LET p == split(s, NL)
  IN  IF p[Len(p)] = <<>> THEN SubSeq(p, 1, Len(p) - 1) ELSE p

\* line.split(':', 1)[-1]: what follows the first colon, the line when none
AfterFirstColon(line) ==
  LET i == find(line, COLON)
  IN  IF i = 0 THEN line ELSE SubSeq(line, i + 1, Len(line))

(***************************************************************************)
(* json.loads, strict: objects, strings and non-negative integers, with    *)
(* whitespace between tokens.  A result is [ok, val, next]; ok = FALSE is  *)
(* JSONDecodeError.                                                        *)
(***************************************************************************)
JsonWs == {SP, TAB, NL}
JsonDigits == {"5", "7"}
JsonFail == [ok |-> FALSE, val |-> NoneV, next |-> 0]

RECURSIVE SkipWs(_, _)
SkipWs(s, i) ==
  IF i <= Len(s) /\ s[i] \in JsonWs THEN SkipWs(s, i + 1) ELSE i

\* the closing quote of a string literal whose text starts at j; 0 when the
\* literal is unterminated or holds a raw control character
RECURSIVE StrEnd(_, _)
StrEnd(s, j) ==
  IF j > Len(s) THEN 0
  ELSE IF s[j] = QUOTE THEN j
  ELSE IF s[j] \in {NL, TAB} THEN 0
  ELSE StrEnd(s, j + 1)

RECURSIVE NumEnd(_, _)
NumEnd(s, j) ==
  IF j <= Len(s) /\ s[j] \in JsonDigits THEN NumEnd(s, j + 1) ELSE j

\* a string literal opening at i, its closing quote at e
StringUpTo(s, i, e) ==
  IF e = 0 THEN JsonFail
  ELSE [ok |-> TRUE, val |-> Str(SubSeq(s, i + 1, e - 1)), next |-> e + 1]

ScanString(s, i) == StringUpTo(s, i, StrEnd(s, i + 1))

\* a number starting at i, ending before e
NumberUpTo(s, i, e) ==
  [ok |-> TRUE, val |-> Num(SubSeq(s, i, e - 1)), next |-> e]

RECURSIVE ScanValue(_, _)
RECURSIVE ScanMembers(_, _, _)

\* after a member's value and the whitespace that follows it, at m: a comma
\* and the next member, or the closing brace
AfterMember(s, m, acc) ==
  IF m > Len(s) THEN JsonFail
  ELSE IF s[m] = COMMA THEN ScanMembers(s, SkipWs(s, m + 1), acc)
  ELSE IF s[m] = RBRACE THEN [ok |-> TRUE, val |-> Dict(acc), next |-> m + 1]
  ELSE JsonFail

\* a member's value was scanned: a later key replaces an earlier equal one
AfterValue(s, key, val, acc) ==
  IF ~val.ok THEN JsonFail
  ELSE AfterMember(s, SkipWs(s, val.next), (key.val.v :> val.val) @@ acc)

\* a member's key was scanned, c is the first non-blank after it
AfterKey(s, key, c, acc) ==
  IF c > Len(s) \/ s[c] # COLON THEN JsonFail
  ELSE AfterValue(s, key, ScanValue(s, SkipWs(s, c + 1)), acc)

KeyScanned(s, key, acc) ==
  IF ~key.ok THEN JsonFail ELSE AfterKey(s, key, SkipWs(s, key.next), acc)

\* the members of an object, the next one's key expected at j
ScanMembers(s, j, acc) ==
  IF j > Len(s) \/ s[j] # QUOTE THEN JsonFail
  ELSE KeyScanned(s, ScanString(s, j), acc)

\* an object opening before j, j its first non-blank
ObjectFrom(s, j) ==
  IF j > Len(s) THEN JsonFail
  ELSE IF s[j] = RBRACE
       THEN [ok |-> TRUE, val |-> Dict(EmptyFn), next |-> j + 1]
       ELSE ScanMembers(s, j, EmptyFn)

ScanObject(s, i) == ObjectFrom(s, SkipWs(s, i + 1))

ScanValue(s, i) ==
  IF i > Len(s) THEN JsonFail
  ELSE IF s[i] = QUOTE THEN ScanString(s, i)
  ELSE IF s[i] = LBRACE THEN ScanObject(s, i)
  ELSE IF s[i] \in JsonDigits THEN NumberUpTo(s, i, NumEnd(s, i))
  ELSE JsonFail

\* one value decoded: nothing but whitespace may follow it
WholeText(s, r) ==
  IF r.ok /\ SkipWs(s, r.next) = Len(s) + 1 THEN r ELSE JsonFail

\* json.loads(s)
json_loads(s) == WholeText(s, ScanValue(s, SkipWs(s, 1)))

(***************************************************************************)
(* validate_case and parse_case_response.  A call's outcome is             *)
(* [kind |-> "return", val |-> ...] or [kind |-> "raise", val |-> NoneV];  *)
(* a try block that neither returns nor raises ends in "pass".             *)
(***************************************************************************)
Return(x) == [kind |-> "return", val |-> x]
Raise == [kind |-> "raise", val |-> NoneV]
Pass == [kind |-> "pass", val |-> NoneV]

\* x.strip() on any value: AttributeError unless x is a str
strip_method(x) ==
  IF x.t = "str" THEN Return(strip(x.v, PyWhitespace)) ELSE Raise

\* the outcome is the return of True
Passes(outcome) == outcome.kind = "return" /\ outcome.val

\* not a.strip() or not b.strip(), left to right, sv and sd the two strips
BothNonEmpty(sv, sd) ==
  IF sv.kind = "raise" THEN Raise
  ELSE IF sv.val = <<>> THEN Return(FALSE)
  ELSE IF sd.kind = "raise" THEN Raise
  ELSE IF sd.val = <<>> THEN Return(FALSE)
  ELSE Return(TRUE)

validate_case(case) ==
  IF case.t # "dict" THEN Return(FALSE)
  ELSE IF <<KV>> \notin DOMAIN case.v \/ <<KD>> \notin DOMAIN case.v
       THEN Return(FALSE)
  ELSE BothNonEmpty(strip_method(case.v[<<KV>>]), strip_method(case.v[<<KD>>]))

\* as JsonSpan, up to the first "}" instead of the last
JsonSpan_FirstClose(s) == SubSeq(s, find(s, LBRACE), find(s, RBRACE))

\* response_content[start_idx:end_idx+1]
JsonSpan(s) == SubSeq(s, find(s, LBRACE), rfind(s, RBRACE))

\* if validate_case(case): return case
JsonValidated(case, valid) ==
  IF valid.kind = "raise" THEN Raise
  ELSE IF valid.val THEN Return(case)
  ELSE Pass

\* case = json.loads(json_str)
JsonDecoded(decoded) ==
  IF ~decoded.ok THEN Raise
  ELSE JsonValidated(decoded.val, validate_case(decoded.val))

\* the first try block: the span from the first "{" to the last "}",
\* decoded and validated
JsonStep(response_content) ==
  IF response_content.t # "str" THEN Raise
  ELSE IF find(response_content.v, LBRACE) # 0
          /\ rfind(response_content.v, RBRACE) # 0
       THEN JsonDecoded(json_loads(JsonSpan(response_content.v)))
       ELSE Pass

\* as ScanLines, leaving the loop at the first line naming the field
RECURSIVE ScanLines_FirstMatch(_, _, _)
ScanLines_FirstMatch(lines, field, acc) ==
  IF lines = <<>> THEN acc
  ELSE IF Contains(lower(Head(lines)), <<field>>)
       THEN strip(AfterFirstColon(Head(lines)), {SP, QUOTE, COMMA})
       ELSE ScanLines_FirstMatch(Tail(lines), field, acc)

\* the value the loop leaves in vignette (field = KV) or diagnosis (KD):
\* that of the last line naming the field, "" when no line does
RECURSIVE ScanLines(_, _, _)
ScanLines(lines, field, acc) ==
  IF lines = <<>> THEN acc
  ELSE ScanLines(Tail(lines), field,
         IF Contains(lower(Head(lines)), <<field>>)
         THEN strip(AfterFirstColon(Head(lines)), {SP, QUOTE, COMMA})
         ELSE acc)

\* if vignette and diagnosis: return {...}
FallbackResult(vignette, diagnosis) ==
  IF vignette # <<>> /\ diagnosis # <<>>
  THEN Return(Dict((<<KV>> :> Str(vignette)) @@ (<<KD>> :> Str(diagnosis))))
  ELSE Pass

FallbackLines(lines) ==
  FallbackResult(ScanLines(lines, KV, <<>>), ScanLines(lines, KD, <<>>))

\* the second try block
FallbackStep(response_content) ==
  IF response_content.t # "str" THEN Raise
  ELSE FallbackLines(splitlines(response_content.v))

\* as ParseResult, with what the first try block raises not caught
ParseResult_Uncaught(j, f) ==
  IF j.kind = "raise" THEN Raise
  ELSE IF j.kind = "return" THEN j
  ELSE IF f.kind = "return" THEN f
  ELSE Return(NoneV)

\* both try blocks swallow what they raise; return None ends the function
ParseResult(j, f) ==
  IF j.kind = "return" THEN j
  ELSE IF f.kind = "return" THEN f
  ELSE Return(NoneV)

parse_case_response(response_content) ==
  ParseResult(JsonStep(response_content), FallbackStep(response_content))

(***************************************************************************)
(* Bounds of the model.                                                    *)
(***************************************************************************)
\* the most cases a run is started to add to the corpus it finds
MaxCases == 2
\* the largest worker pool a run is started with
MaxWorkers == 2
\* the longest list of accepted labels validate_diagnosis is given
MaxAvoid == 2
\* the largest num_diseases generate_unique_diseases is called with on its own
MaxDiseases == 4

\* range(3) in generate_case_for_disease
Attempts == 3

(***************************************************************************)
(* State.                                                                  *)
(*   file       the corpus file: exists, decodes, the JSON array it holds  *)
(*   num_cases, max_workers   the arguments of generate_cases_parallel     *)
(*   pc         where the coordinator is                                   *)
(*   cases, start_idx, unique_diseases   its locals                        *)
(*   generated_diseases   the module-level list                            *)
(*   diseases   the list generate_unique_diseases accumulates              *)
(*   task       one future per dispatched label: the loop variable of      *)
(*              generate_case_for_disease and, once done, its outcome      *)
(*   processed  the futures as_completed has yielded                       *)
(*   yielded    the same futures, in the order as_completed yielded them   *)
(* History, read by the properties only:                                   *)
(*   file0      the corpus file when the run started                       *)
(*   disease_requested   a disease-list request was issued                 *)
(*   first_valid   per task, the first parsed response that validated      *)
(*   save_failed   the futures whose save_cases call raised                *)
(*   crash      of the process that was killed, if one was (n = 1): the    *)
(*              cases it had loaded, the results it had processed, and how *)
(*              many tasks it had dispatched                               *)
(* State of the function-level specification SpecFn:                       *)
(*   fn, arg, res   the function applied, its argument, its outcome        *)
(*   diseases_to_avoid   the list passed to validate_diagnosis             *)
(* State of a call of generate_unique_diseases on its own (SpecGen):       *)
(*   num_diseases   its argument                                           *)
(*   gen_result     what it returned, once it has                          *)
(*   seen, tick     history: the distinct candidate lines of the responses *)
(*              so far in the order they first came, and a bit that flips  *)
(*              at every request                                           *)
(* State of the inference pipeline, main.py (SpecMain):                    *)
(*   results, results_file, case_idx   main's list, its file, its loop     *)
(*              variable; the corpus is file, the loaded cases are cases   *)
(*   calls      history: per case, the responses of the two requests and   *)
(*              the disease passed to deductive_inference                  *)
(***************************************************************************)
VARIABLES file, num_cases, max_workers, pc, cases, start_idx,
          unique_diseases, generated_diseases, diseases, task, processed,
          file0, disease_requested, first_valid, yielded, save_failed, crash,
          fn, arg, res, diseases_to_avoid,
          num_diseases, gen_result, seen, tick,
          results, results_file, case_idx, calls

runVars == <<file, num_cases, max_workers, pc, cases, start_idx,
             unique_diseases, generated_diseases, diseases, task, processed,
             file0, disease_requested, first_valid, yielded, save_failed,
             crash>>
fnVars == <<fn, arg, res, diseases_to_avoid>>
genVars == <<num_diseases, gen_result, seen, tick>>
mainVars == <<results, results_file, case_idx, calls>>
\* what no step of generate_cases_parallel changes
otherVars == <<save_failed, crash, fnVars, genVars, mainVars>>
vars == <<runVars, fnVars, genVars, mainVars>>

\* a case record
Case(vignette, diagnosis) ==
  Dict((<<KV>> :> Str(vignette)) @@ (<<KD>> :> Str(diagnosis)))

\* the record returned when every attempt failed
Placeholder(disease) == Case(<<FAILED>>, disease)

(***************************************************************************)
(* The model service, a black box: a request raises, or returns a message  *)
(* whose content is any text, or None.                                     *)
(***************************************************************************)
SvcError == [exc |-> TRUE, content |-> NoneV]
SvcText(c) == [exc |-> FALSE, content |-> c]

\* a case as the prompt asks for it: a pretty-printed JSON object
JsonCaseText(vignette, diagnosis) ==
  <<LBRACE, NL, SP, QUOTE, KV, QUOTE, COLON, SP, QUOTE>> \o vignette
  \o <<QUOTE, COMMA, NL, SP, QUOTE, KD, QUOTE, COLON, SP, QUOTE>> \o diagnosis
  \o <<QUOTE, NL, RBRACE>>

\* what a case-generation request for a disease may come back with
CaseOutcomes(disease) ==
  { SvcError,
    SvcText(NoneV),
    SvcText(Str(<<"a", SP, "b">>)),
    SvcText(Str(<<KV, COLON, SP, TAB, NL, KD, COLON, SP>> \o disease)),
    SvcText(Str(<<"a", COLON, NL>> \o JsonCaseText(<<"a">>, disease))),
    SvcText(Str(JsonCaseText(<<"a">>, <<"z">>))) }

\* what a disease-list request may come back with
DiseaseOutcomes ==
  { SvcError,
    SvcText(NoneV),
    SvcText(Str(<<"a", NL, "b">>)),
    SvcText(Str(<<SP, "b", SP, NL, NL, "c", NL>>)),
    SvcText(Str(<<TAB, NL, SP>>)) }

\* the corpus a previous run may have left
PriorCorpus ==
  << Case(<<"a">>, <<"a">>), Placeholder(<<"b">>), Case(<<"a">>, <<"c">>) >>

\* the corpus file: whether it exists, whether its text decodes as JSON,
\* and the list it decodes to
NoFile == [exists |-> FALSE, intact |-> FALSE, data |-> <<>>]
BrokenFile == [exists |-> TRUE, intact |-> FALSE, data |-> <<>>]

InitialFiles ==
  { NoFile, BrokenFile }
  \cup { [exists |-> TRUE, intact |-> TRUE, data |-> SubSeq(PriorCorpus, 1, k)] :
           k \in 0..Len(PriorCorpus) }

\* load_cases: the list in the file, or [] when the file is missing or does
\* not decode
Readable(f) == f.exists /\ f.intact

\* as load_cases, returning [] whatever the file holds
load_cases_Fresh(f) == <<>>

load_cases(f) == IF Readable(f) THEN f.data ELSE <<>>

(***************************************************************************)
(* generate_unique_diseases                                                *)
(***************************************************************************)
RECURSIVE SelectNonBlank(_)
SelectNonBlank(lines) ==
  IF lines = <<>> THEN <<>>
  ELSE IF strip(Head(lines), PyWhitespace) # <<>>
       THEN <<strip(Head(lines), PyWhitespace)>> \o SelectNonBlank(Tail(lines))
       ELSE SelectNonBlank(Tail(lines))

\* as new_diseases, without the "if line.strip()" filter
RECURSIVE StripEach(_)
StripEach(lines) ==
  IF lines = <<>> THEN <<>>
  ELSE <<strip(Head(lines), PyWhitespace)>> \o StripEach(Tail(lines))

new_diseases_KeepBlank(content) == StripEach(split(content, NL))

\* [line.strip() for line in content.split('\n') if line.strip()]
new_diseases(content) == SelectNonBlank(split(content, NL))

InList(d, list) == \E k \in 1..Len(list) : list[k] = d

\* the for loop: append what is not yet in the list, stop at num_diseases
RECURSIVE AddUnique(_, _, _)
AddUnique(acc, new, n) ==
  IF new = <<>> THEN acc
  ELSE IF InList(Head(new), acc) THEN AddUnique(acc, Tail(new), n)
  ELSE IF Len(acc) + 1 >= n THEN Append(acc, Head(new))
  ELSE AddUnique(Append(acc, Head(new)), Tail(new), n)

\* as DiseaseBatch, starting again from no label when a request fails
DiseaseBatch_ForgetOnError(acc, svc, n) ==
  IF svc.exc \/ svc.content.t # "str" THEN <<>>
  ELSE AddUnique(acc, new_diseases(svc.content.v), n)

\* one pass of the while loop's body on the outcome of its request
DiseaseBatch(acc, svc, n) ==
  IF svc.exc \/ svc.content.t # "str" THEN acc
  ELSE AddUnique(acc, new_diseases(svc.content.v), n)

(***************************************************************************)
(* generate_case_for_disease: one pass of its for loop, on the outcome of  *)
(* the pass's request.  attempt is the loop variable (0, 1, 2).            *)
(***************************************************************************)
Retry == [kind |-> "retry", val |-> NoneV]

\* the pass returned nothing: sleep, then the next pass, or after the last
\* one the placeholder
NoCase(disease, attempt) ==
  IF attempt + 1 < Attempts THEN Retry ELSE Return(Placeholder(disease))

\* as CaseValidated, returning a valid case only from the last pass
CaseValidated_NoEarlyReturn(disease, attempt, case, valid) ==
  IF valid.kind = "return" /\ valid.val /\ attempt + 1 >= Attempts
  THEN Return(case)
  ELSE NoCase(disease, attempt)

\* if validate_case(case): return case
CaseValidated(disease, attempt, case, valid) ==
  IF valid.kind = "return" /\ valid.val THEN Return(case)
  ELSE NoCase(disease, attempt)

\* case = parse_case_response(content)
CaseParsed(disease, attempt, parsed) ==
  IF parsed.kind = "raise" THEN NoCase(disease, attempt)
  ELSE CaseValidated(disease, attempt, parsed.val, validate_case(parsed.val))

\* as generate_case_step, with no except clause for the request
generate_case_step_NoExcept(disease, attempt, svc) ==
  IF svc.exc THEN Raise
  ELSE CaseParsed(disease, attempt, parse_case_response(svc.content))

\* the try block: an exception of the request, of the parser or of the
\* validator is caught
generate_case_step(disease, attempt, svc) ==
  IF svc.exc THEN NoCase(disease, attempt)
  ELSE CaseParsed(disease, attempt, parse_case_response(svc.content))

(***************************************************************************)
(* generate_cases_parallel                                                 *)
(***************************************************************************)
NoOutcome == [kind |-> "none", val |-> NoneV]
NewTask == [done |-> FALSE, attempt |-> 0, out |-> NoOutcome]

\* [case["actual_diagnosis"] for case in cases]
Labels(cs) == [k \in 1..Len(cs) |-> cs[k].v[<<KD>>].v]

\* no process was killed
NoCrash == [n |-> 0, startup |-> <<>>, results |-> <<>>, tasks |-> 0]

\* generate_unique_diseases is not called on its own
GenIdle ==
  /\ num_diseases = 0
  /\ gen_result = NoOutcome
  /\ seen = <<>>
  /\ tick = FALSE

\* the inference pipeline does not run
NoResultsFile == [exists |-> FALSE, data |-> <<>>]
MainIdle ==
  /\ results = <<>>
  /\ results_file = NoResultsFile
  /\ case_idx = 0
  /\ calls = <<>>

Init ==
  /\ file \in InitialFiles
  /\ file0 = file
  /\ num_cases \in 0..(Len(load_cases(file)) + MaxCases)
  /\ max_workers \in 1..MaxWorkers
  /\ pc = "start"
  /\ cases = <<>>
  /\ start_idx = 0
  /\ unique_diseases = <<>>
  /\ generated_diseases = <<>>
  /\ diseases = <<>>
  /\ task = <<>>
  /\ processed = {}
  /\ disease_requested = FALSE
  /\ first_valid = <<>>
  /\ yielded = <<>>
  /\ save_failed = {}
  /\ crash = NoCrash
  /\ fn = "none" /\ arg = NoneV /\ res = NoOutcome /\ diseases_to_avoid = <<>>
  /\ GenIdle
  /\ MainIdle

\* as LoadCases, with the loaded cases not counted in start_idx
LoadCases_StartZero ==
  /\ pc = "start"
  /\ cases' = load_cases(file)
  /\ generated_diseases' =
       (IF Readable(file) THEN Labels(file.data) ELSE generated_diseases)
  /\ start_idx' = 0
  /\ pc' = (IF start_idx' >= num_cases THEN "done" ELSE "diseases")
  /\ UNCHANGED <<file, num_cases, max_workers, unique_diseases, diseases, task,
                 processed, file0, disease_requested, first_valid, yielded,
                 otherVars>>

\* load_cases, then the check of the count against the target
LoadCases ==
  /\ pc = "start"
  /\ cases' = load_cases(file)
  /\ generated_diseases' =
       (IF Readable(file) THEN Labels(file.data) ELSE generated_diseases)
  /\ start_idx' = Len(cases')
  /\ pc' = (IF start_idx' >= num_cases THEN "done" ELSE "diseases")
  /\ UNCHANGED <<file, num_cases, max_workers, unique_diseases, diseases, task,
                 processed, file0, disease_requested, first_valid, yielded,
                 otherVars>>

\* generate_unique_diseases: one pass of the while loop
RequestDiseases ==
  /\ pc = "diseases"
  /\ Len(diseases) < num_cases - start_idx
  /\ \E svc \in DiseaseOutcomes :
       diseases' = DiseaseBatch(diseases, svc, num_cases - start_idx)
  /\ disease_requested' = TRUE
  /\ UNCHANGED <<file, num_cases, max_workers, pc, cases, start_idx,
                 unique_diseases, generated_diseases, task, processed, file0,
                 first_valid, yielded,
                 otherVars>>

\* generate_unique_diseases returns diseases[:num_diseases]; one task is
\* submitted per label
SubmitAll ==
  /\ pc = "diseases"
  /\ Len(diseases) >= num_cases - start_idx
  /\ unique_diseases' = SubSeq(diseases, 1, num_cases - start_idx)
  /\ task' = [i \in 1..Len(unique_diseases') |-> NewTask]
  /\ first_valid' = [i \in 1..Len(unique_diseases') |-> NoneV]
  /\ pc' = "collect"
  /\ UNCHANGED <<file, num_cases, max_workers, cases, start_idx,
                 generated_diseases, diseases, processed, file0,
                 disease_requested, yielded,
                 otherVars>>

\* the pool runs the tasks in submission order, max_workers at a time: task
\* i has a worker when fewer than max_workers unfinished tasks precede it
HasWorker(i) ==
  Cardinality({j \in 1..(i - 1) : ~task[j].done}) < max_workers

\* the first response of a task that parses to a case that validates
FirstValidOf(old, parsed) ==
  IF old = NoneV /\ parsed.kind = "return" /\ Passes(validate_case(parsed.val))
  THEN parsed.val ELSE old

FirstValid(old, svc) ==
  IF svc.exc THEN old ELSE FirstValidOf(old, parse_case_response(svc.content))

\* the task after a pass of its loop
TaskAfter(t, step) ==
  [done |-> step.kind # "retry",
   attempt |-> t.attempt + 1,
   out |-> IF step.kind = "retry" THEN NoOutcome ELSE step]

\* a worker runs one pass of the loop of generate_case_for_disease
Attempt(i) ==
  /\ pc = "collect"
  /\ ~task[i].done
  /\ HasWorker(i)
  /\ \E svc \in CaseOutcomes(unique_diseases[i]) :
       /\ task' = [task EXCEPT ![i] = TaskAfter(task[i],
              generate_case_step(unique_diseases[i], task[i].attempt, svc))]
       /\ first_valid' =
            [first_valid EXCEPT ![i] = FirstValid(first_valid[i], svc)]
  /\ UNCHANGED <<file, num_cases, max_workers, pc, cases, start_idx,
                 unique_diseases, generated_diseases, diseases, processed,
                 file0, disease_requested, yielded,
                 otherVars>>

\* save_cases: the whole list replaces the file
save_cases(cs) == [exists |-> TRUE, intact |-> TRUE, data |-> cs]

\* the elements of a set of numbers, in increasing order
RECURSIVE Ascending(_)
Ascending(S) ==
  IF S = {} THEN <<>>
  ELSE <<CHOOSE x \in S : \A y \in S : x <= y>>
       \o Ascending(S \ {CHOOSE x \in S : \A y \in S : x <= y})

\* as ProcessCompleted, with the new records kept in the order of submission
ProcessCompleted_BySubmission(i) ==
  /\ pc = "collect"
  /\ task[i].done
  /\ i \notin processed
  /\ processed' = processed \cup {i}
  /\ cases' = SubSeq(cases, 1, start_idx)
               \o [k \in 1..Cardinality(processed') |->
                     task[Ascending(processed')[k]].out.val]
  /\ file' = save_cases(cases')
  /\ yielded' = Append(yielded, i)
  /\ UNCHANGED <<num_cases, max_workers, pc, start_idx, unique_diseases,
                 generated_diseases, diseases, task, file0, disease_requested,
                 first_valid, otherVars>>

\* as_completed yields a finished future; its result is appended and the
\* corpus saved, or its exception is caught
ProcessCompleted(i) ==
  /\ pc = "collect"
  /\ task[i].done
  /\ i \notin processed
  /\ processed' = processed \cup {i}
  /\ IF task[i].out.kind = "return"
     THEN /\ cases' = Append(cases, task[i].out.val)
          /\ file' = save_cases(cases')
     ELSE UNCHANGED <<cases, file>>
  /\ yielded' = Append(yielded, i)
  /\ UNCHANGED <<num_cases, max_workers, pc, start_idx, unique_diseases,
                 generated_diseases, diseases, task, file0, disease_requested,
                 first_valid, otherVars>>

\* every future was yielded: the pool shuts down and the function returns
Finish ==
  /\ pc = "collect"
  /\ processed = DOMAIN task
  /\ pc' = "done"
  /\ UNCHANGED <<file, num_cases, max_workers, cases, start_idx,
                 unique_diseases, generated_diseases, diseases, task,
                 processed, file0, disease_requested, first_valid, yielded,
                 otherVars>>

Next ==
  \/ LoadCases
  \/ RequestDiseases
  \/ SubmitAll
  \/ \E i \in DOMAIN task : Attempt(i)
  \/ \E i \in DOMAIN task : ProcessCompleted(i)
  \/ Finish

Spec == Init /\ [][Next]_vars

(***************************************************************************)
(* The run with a file system that may fail: for one of the tasks          *)
(* save_cases raises, from open (the file is as it was) or in the middle   *)
(* of json.dump (the file is left with text that does not decode);         *)
(* cases.append has been done by then, and the except clause of the loop   *)
(* catches the exception.                                                  *)
(***************************************************************************)
\* as ProcessCompletedSaveFails, with no except clause: the exception leaves
\* the loop and the function
ProcessCompletedSaveFails_Uncaught(i) ==
  /\ pc = "collect"
  /\ task[i].done
  /\ i \notin processed
  /\ task[i].out.kind = "return"
  /\ save_failed = {}
  /\ processed' = processed \cup {i}
  /\ cases' = Append(cases, task[i].out.val)
  /\ file' \in {file, BrokenFile}
  /\ yielded' = Append(yielded, i)
  /\ save_failed' = save_failed \cup {i}
  /\ pc' = "done"
  /\ UNCHANGED <<num_cases, max_workers, start_idx, unique_diseases,
                 generated_diseases, diseases, task, file0, disease_requested,
                 first_valid, crash, fnVars, genVars, mainVars>>

ProcessCompletedSaveFails(i) ==
  /\ pc = "collect"
  /\ task[i].done
  /\ i \notin processed
  /\ task[i].out.kind = "return"
  /\ save_failed = {}
  /\ processed' = processed \cup {i}
  /\ cases' = Append(cases, task[i].out.val)
  /\ file' \in {file, BrokenFile}
  /\ yielded' = Append(yielded, i)
  /\ save_failed' = save_failed \cup {i}
  /\ UNCHANGED <<num_cases, max_workers, pc, start_idx, unique_diseases,
                 generated_diseases, diseases, task, file0, disease_requested,
                 first_valid, crash, fnVars, genVars, mainVars>>

NextFaulty ==
  \/ Next
  \/ \E i \in DOMAIN task : ProcessCompletedSaveFails(i)

SpecFaulty == Init /\ [][NextFaulty]_vars

(***************************************************************************)
(* The run, killed once at any point between two steps (so not in the      *)
(* middle of a file write), and started again with the same target: the    *)
(* new process has nothing of the old one but the corpus file.             *)
(***************************************************************************)
\* the results the coordinator has processed, in the order it did
Processed == [k \in DOMAIN yielded |-> task[yielded[k]].out.val]

KillAndRestart ==
  /\ crash.n = 0
  /\ pc \in {"start", "diseases", "collect"}
  /\ crash' = [n |-> 1, startup |-> load_cases(file0), results |-> Processed,
               tasks |-> Len(task)]
  /\ pc' = "start"
  /\ file0' = file
  /\ cases' = <<>>
  /\ start_idx' = 0
  /\ unique_diseases' = <<>>
  /\ generated_diseases' = <<>>
  /\ diseases' = <<>>
  /\ task' = <<>>
  /\ processed' = {}
  /\ yielded' = <<>>
  /\ first_valid' = <<>>
  /\ disease_requested' = FALSE
  /\ UNCHANGED <<file, num_cases, max_workers, save_failed, fnVars, genVars,
                 mainVars>>

NextCrash ==
  \/ Next
  \/ KillAndRestart

SpecCrash == Init /\ [][NextCrash]_vars

(***************************************************************************)
(* validate_diagnosis                                                      *)
(***************************************************************************)
\* as AvoidLoop, testing only whether the diagnosis contains the label
RECURSIVE AvoidLoop_OneWay(_, _)
AvoidLoop_OneWay(diagnosis_lower, avoid) ==
  IF avoid = <<>> THEN TRUE
  ELSE IF Contains(diagnosis_lower, lower(Head(avoid))) THEN FALSE
  ELSE AvoidLoop_OneWay(diagnosis_lower, Tail(avoid))

\* the for loop: False at the first label that contains the diagnosis or is
\* contained in it, True when the list is exhausted
RECURSIVE AvoidLoop(_, _)
AvoidLoop(diagnosis_lower, avoid) ==
  IF avoid = <<>> THEN TRUE
  ELSE IF \/ Contains(diagnosis_lower, lower(Head(avoid)))
          \/ Contains(lower(Head(avoid)), diagnosis_lower)
       THEN FALSE
       ELSE AvoidLoop(diagnosis_lower, Tail(avoid))

validate_diagnosis(diagnosis, avoid) == AvoidLoop(lower(diagnosis), avoid)

(***************************************************************************)
(* The function-level specification: validate_case, parse_case_response    *)
(* and validate_diagnosis, each applied once to an argument drawn in the   *)
(* initial state.  arg is [kind, val, meta]: val is the value passed, meta *)
(* how it was built.                                                       *)
(***************************************************************************)
\* -- arguments of validate_case: any value
FieldValues ==
  { Str(<<>>), Str(<<SP>>), Str(<<TAB, NL>>), Str(<<"a">>),
    Str(<<SP, "a", TAB>>), Num(<<"5">>), NoneV, Dict(EmptyFn) }

OptionalField(key) ==
  {EmptyFn} \cup { key :> x : x \in FieldValues }

CaseArguments ==
  { NoneV, Str(<<KV, KD>>), Num(<<"7">>) }
  \cup { Dict(v @@ d @@ e) : v \in OptionalField(<<KV>>),
                             d \in OptionalField(<<KD>>),
                             e \in {EmptyFn, <<"a">> :> Str(<<"b">>)} }

\* -- responses that embed a JSON object with both fields in prose
VignetteValues ==
  { Str(<<"a">>), Str(<<>>), Str(<<SP>>), Str(<<"a", RBRACE, "b">>),
    Str(<<LBRACE>>), Num(<<"5">>) }
DiagnosisValues ==
  { Str(<<"b">>), Str(<<SP>>), Num(<<"7">>), Str(<<"b", COLON, SP, "c">>) }

\* the members of an object, in the order they are written
MemberLists ==
  UNION { { << <<KV, v>>, <<KD, d>> >>, << <<KD, d>>, <<KV, v>> >>,
            << <<KV, v>>, <<"a", Str(<<"c">>)>>, <<KD, d>> >> } :
          v \in VignetteValues, d \in DiagnosisValues }

Prefixes ==
  { <<>>, <<"a", SP>>, <<"a", COLON, NL>>, <<LBRACE, "a", RBRACE, SP>>,
    <<RBRACE, SP>> }
Suffixes == { <<>>, <<SP, "b">>, <<NL, RBRACE>>, <<SP, LBRACE>> }

\* a value as JSON text
DumpValue(x) == IF x.t = "str" THEN <<QUOTE>> \o x.v \o <<QUOTE>> ELSE x.v

\* the members as JSON text, on one line or (pretty) one per line
RECURSIVE DumpMembers(_, _)
DumpMembers(members, pretty) ==
  IF members = <<>> THEN <<>>
  ELSE (IF pretty THEN <<NL, SP>> ELSE <<>>)
       \o <<QUOTE, Head(members)[1], QUOTE, COLON>>
       \o (IF pretty THEN <<SP>> ELSE <<>>)
       \o DumpValue(Head(members)[2])
       \o (IF Len(members) > 1 THEN <<COMMA>> ELSE <<>>)
       \o DumpMembers(Tail(members), pretty)

DumpObject(members, pretty) ==
  <<LBRACE>> \o DumpMembers(members, pretty)
  \o (IF pretty THEN <<NL>> ELSE <<>>) \o <<RBRACE>>

\* the object the members denote
ObjectOf(members) ==
  Dict([k \in {<<members[i][1]>> : i \in DOMAIN members} |->
         members[CHOOSE i \in DOMAIN members : members[i][1] = k[1]][2]])

EmbeddedArguments ==
  { [kind |-> "embedded",
     val |-> Str(pre \o DumpObject(m, pretty) \o post),
     meta |-> [obj |-> ObjectOf(m), pre |-> pre, post |-> post]] :
    pre \in Prefixes, m \in MemberLists, pretty \in BOOLEAN, post \in Suffixes }

\* -- responses made of lines, for the line scan
Lines ==
  { <<KV, COLON, SP, QUOTE, "a", QUOTE>>,
    <<KV, COLON, SP, QUOTE, QUOTE>>,
    <<KV, COLON, TAB, QUOTE, "a", SP, QUOTE, COMMA>>,
    <<KVU, COLON, SP, QUOTE, "b", COLON, "a", QUOTE>>,
    <<"a", SP, KV, SP, "b">>,
    <<KD, COLON, SP, QUOTE, "b", QUOTE>>,
    <<KD, COLON, SP, QUOTE, SP, COMMA, QUOTE>>,
    <<KD, COLON, SP, QUOTE, "c", QUOTE, TAB>>,
    <<"a", COLON, SP, KD, COLON, "b", QUOTE, COMMA, SP>>,
    <<"a", SP, "b">>,
    <<>> }

JoinLines(ls) ==
  IF Len(ls) = 1 THEN ls[1]
  ELSE IF Len(ls) = 2 THEN ls[1] \o <<NL>> \o ls[2]
  ELSE ls[1] \o <<NL>> \o ls[2] \o <<NL>> \o ls[3]

LineArguments ==
  { [kind |-> "lines", val |-> Str(JoinLines(ls)), meta |-> ls] :
    ls \in UNION { [1..n -> Lines] : n \in 1..3 } }

\* -- other responses: no content, no braces, braces that do not match
RawArguments ==
  { [kind |-> "raw", val |-> c, meta |-> <<>>] :
    c \in { NoneV, Str(<<>>), Str(<<"a", SP, "b">>), Str(<<RBRACE, SP, LBRACE>>),
            Str(<<LBRACE, QUOTE, KV, QUOTE, COLON>>), Str(<<LBRACE, "5", RBRACE>>),
            Str(<<LBRACE, RBRACE>>), Str(<<LBRACE, LBRACE, RBRACE>>) } }

\* -- arguments of validate_diagnosis
DiseaseLabels ==
  { <<>>, <<"a">>, <<"A">>, <<"b">>, <<"b", SP, "A">>, <<"a", "b">>,
    <<"B", "a">>, <<"c">> }

AvoidLists == UNION { [1..n -> DiseaseLabels] : n \in 0..MaxAvoid }

DiagnosisArguments ==
  { [kind |-> "diagnosis", val |-> Str(d), meta |-> avoid] :
    d \in DiseaseLabels, avoid \in AvoidLists }

\* the coordinator does not run in this specification
RunIdle ==
  /\ file = NoFile
  /\ file0 = file
  /\ num_cases = 0
  /\ max_workers = 1
  /\ pc = "off"
  /\ cases = <<>>
  /\ start_idx = 0
  /\ unique_diseases = <<>>
  /\ generated_diseases = <<>>
  /\ diseases = <<>>
  /\ task = <<>>
  /\ processed = {}
  /\ disease_requested = FALSE
  /\ first_valid = <<>>
  /\ yielded = <<>>
  /\ save_failed = {}
  /\ crash = NoCrash

InitFn ==
  /\ RunIdle
  /\ GenIdle
  /\ MainIdle
  /\ fn = "none"
  /\ res = NoOutcome
  /\ \/ /\ arg \in { [kind |-> "case", val |-> c, meta |-> <<>>] :
                     c \in CaseArguments }
        /\ diseases_to_avoid = <<>>
     \/ /\ arg \in EmbeddedArguments
        /\ diseases_to_avoid = <<>>
     \/ /\ arg \in LineArguments
        /\ diseases_to_avoid = <<>>
     \/ /\ arg \in RawArguments
        /\ diseases_to_avoid = <<>>
     \/ /\ arg \in DiagnosisArguments
        /\ diseases_to_avoid = arg.meta

CallValidateCase ==
  /\ fn = "none"
  /\ arg.kind = "case"
  /\ fn' = "validate_case"
  /\ res' = validate_case(arg.val)
  /\ UNCHANGED <<arg, diseases_to_avoid, runVars, genVars, mainVars>>

CallParseCaseResponse ==
  /\ fn = "none"
  /\ arg.kind \in {"embedded", "lines", "raw"}
  /\ fn' = "parse_case_response"
  /\ res' = parse_case_response(arg.val)
  /\ UNCHANGED <<arg, diseases_to_avoid, runVars, genVars, mainVars>>

\* the function reads its list and returns a bool
CallValidateDiagnosis ==
  /\ fn = "none"
  /\ arg.kind = "diagnosis"
  /\ fn' = "validate_diagnosis"
  /\ res' = Return(validate_diagnosis(arg.val.v, diseases_to_avoid))
  /\ UNCHANGED <<arg, diseases_to_avoid, runVars, genVars, mainVars>>

NextFn ==
  \/ CallValidateCase
  \/ CallParseCaseResponse
  \/ CallValidateDiagnosis

SpecFn == InitFn /\ [][NextFn]_vars

(***************************************************************************)
(* generate_unique_diseases called on its own with any num_diseases, one   *)
(* pass of its while loop per step.                                        *)
(***************************************************************************)
\* the lines of a text, cut at its line feeds
RECURSIVE LinesFrom(_, _)
LinesFrom(text, start) ==
  LET feeds == {i \in start..Len(text) : text[i] = NL}
      stop == IF feeds = {} THEN Len(text) + 1
              ELSE CHOOSE i \in feeds : \A j \in feeds : i <= j
  IN  <<SubSeq(text, start, stop - 1)>>
      \o (IF stop > Len(text) THEN <<>> ELSE LinesFrom(text, stop + 1))

\* the candidate labels of a response: its lines without the whitespace
\* around them, the blank ones left out; none when the request failed
Candidates(svc) ==
  IF svc.exc \/ svc.content.t # "str" THEN <<>>
  ELSE LET ls == LinesFrom(svc.content.v, 1)
           keep == {i \in DOMAIN ls :
                      \E k \in DOMAIN ls[i] : ls[i][k] \notin {SP, TAB, NL}}
           Pick[i \in 0..Len(ls)] ==
             IF i = 0 THEN <<>>
             ELSE IF i \in keep
                  THEN Append(Pick[i - 1],
                         SubSeq(ls[i],
                           CHOOSE a \in DOMAIN ls[i] :
                             /\ ls[i][a] \notin {SP, TAB, NL}
                             /\ \A b \in 1..(a - 1) : ls[i][b] \in {SP, TAB, NL},
                           CHOOSE a \in DOMAIN ls[i] :
                             /\ ls[i][a] \notin {SP, TAB, NL}
                             /\ \A b \in (a + 1)..Len(ls[i]) :
                                   ls[i][b] \in {SP, TAB, NL}))
                  ELSE Pick[i - 1]
       IN  Pick[Len(ls)]

\* s without the repetitions of an earlier element
KeepFirst(s) ==
  LET Upto[k \in 0..Len(s)] ==
        IF k = 0 THEN <<>>
        ELSE IF \E j \in 1..(k - 1) : s[j] = s[k] THEN Upto[k - 1]
             ELSE Append(Upto[k - 1], s[k])
  IN  Upto[Len(s)]

\* what a disease-list request may come back with: as in a run, and two
\* more responses with labels that contain one another
GenOutcomes ==
  DiseaseOutcomes
  \cup { SvcText(Str(<<"a", "b", NL, "A">>)), SvcText(Str(<<"c">>)) }

InitGen ==
  /\ RunIdle
  /\ MainIdle
  /\ fn = "none" /\ arg = NoneV /\ res = NoOutcome /\ diseases_to_avoid = <<>>
  /\ num_diseases \in 0..MaxDiseases
  /\ gen_result = NoOutcome
  /\ seen = <<>>
  /\ tick = FALSE

\* as GenRequest, with the loop going on while len(diseases) <= num_diseases
GenRequest_OneMore ==
  /\ gen_result.kind = "none"
  /\ Len(diseases) <= num_diseases
  /\ \E svc \in GenOutcomes :
       /\ diseases' = DiseaseBatch(diseases, svc, num_diseases)
       /\ seen' = KeepFirst(seen \o Candidates(svc))
  /\ tick' = ~tick
  /\ UNCHANGED <<file, num_cases, max_workers, pc, cases, start_idx,
                 unique_diseases, generated_diseases, task, processed, file0,
                 disease_requested, first_valid, yielded, save_failed, crash,
                 fnVars, num_diseases, gen_result, mainVars>>

\* one pass of the while loop: a request, and what its response adds
GenRequest ==
  /\ gen_result.kind = "none"
  /\ Len(diseases) < num_diseases
  /\ \E svc \in GenOutcomes :
       /\ diseases' = DiseaseBatch(diseases, svc, num_diseases)
       /\ seen' = KeepFirst(seen \o Candidates(svc))
  /\ tick' = ~tick
  /\ UNCHANGED <<file, num_cases, max_workers, pc, cases, start_idx,
                 unique_diseases, generated_diseases, task, processed, file0,
                 disease_requested, first_valid, yielded, save_failed, crash,
                 fnVars, num_diseases, gen_result, mainVars>>

\* the loop is left: return diseases[:num_diseases]
GenReturn ==
  /\ gen_result.kind = "none"
  /\ ~(Len(diseases) < num_diseases)
  /\ gen_result' = Return(List(SubSeq(diseases, 1, num_diseases)))
  /\ UNCHANGED <<runVars, fnVars, num_diseases, seen, tick, mainVars>>

NextGen ==
  \/ GenRequest
  \/ GenReturn

SpecGen == InitGen /\ [][NextGen]_vars

\* the call goes on running: the loop makes its next request, sleeping one
\* second after a failed one, or the function returns; nothing is assumed
\* of the service
SpecGenLive == InitGen /\ [][NextGen]_vars /\ WF_vars(NextGen)

(***************************************************************************)
(* The inference pipeline, main.py: main, one pass of its for loop per     *)
(* step, with the two requests of the pass.                                *)
(***************************************************************************)
\* [d.strip() for d in answer.split('\n') if d.strip()], without the filter
probabilistic_inference_KeepBlank(answer) == StripEach(split(answer, NL))

\* probabilistic_inference, from the content of its response on
probabilistic_inference(answer) == SelectNonBlank(split(answer, NL))

\* deductive_inference, from the content of its response on
deductive_inference(answer) == strip(answer, PyWhitespace)

\* the number of diagnoses the prompt asks for
Ranked == 10

TenLines ==
  <<"a", NL, "b", NL, "c", NL, "a", NL, "b", NL, "c", NL, "a", NL, "b", NL,
    "c", NL, SP, "z">>

\* what a probabilistic-inference request may come back with
RankOutcomes ==
  { SvcError,
    SvcText(NoneV),
    SvcText(Str(TenLines)),
    SvcText(Str(<<"a", NL, SP, "b", SP, NL>>)),
    SvcText(Str(<<"c">>)),
    SvcText(Str(<<NL, SP, TAB>>)),
    SvcText(Str(<<>>)) }

\* what a deductive-inference request may come back with
QuestionOutcomes ==
  { SvcError,
    SvcText(NoneV),
    SvcText(Str(<<SP, "a", SP, "b", NL>>)),
    SvcText(Str(<<"c">>)),
    SvcText(Str(<<>>)) }

\* the results file: whether it exists, and the list in it
results_json(rs) == [exists |-> TRUE, data |-> rs]

\* case_result, once filled
CaseResult(idx, case, ds, question) ==
  [case_number |-> idx,
   doctor_vignette |-> case.v[<<KV>>],
   actual_diagnosis |-> case.v[<<KD>>],
   diseases |-> ds,
   least_likely_disease |-> ds[Len(ds)],
   ruling_out_question |-> question]

\* a results file a previous run left
StaleResults ==
  results_json(<<CaseResult(1, Case(<<"b">>, <<"b">>), << <<"c">> >>, <<"a">>)>>)

\* diseases[-1] raises IndexError on the empty list
RankFault(ds) == ds = <<>>

\* the request raised, or its content is None and the method call on it
\* raises
NoAnswer(svc) == svc.exc \/ svc.content.t # "str"

InitMain ==
  /\ file \in InitialFiles
  /\ file0 = file
  /\ num_cases = 0
  /\ max_workers = 1
  /\ pc = "main"
  /\ cases = <<>>
  /\ start_idx = 0
  /\ unique_diseases = <<>>
  /\ generated_diseases = <<>>
  /\ diseases = <<>>
  /\ task = <<>>
  /\ processed = {}
  /\ disease_requested = FALSE
  /\ first_valid = <<>>
  /\ yielded = <<>>
  /\ save_failed = {}
  /\ crash = NoCrash
  /\ fn = "none" /\ arg = NoneV /\ res = NoOutcome /\ diseases_to_avoid = <<>>
  /\ GenIdle
  /\ results = <<>>
  /\ results_file \in {NoResultsFile, StaleResults}
  /\ case_idx = 0
  /\ calls = <<>>

\* what main leaves alone
mainRest == <<file, num_cases, max_workers, start_idx, unique_diseases,
              generated_diseases, diseases, task, processed, file0,
              disease_requested, first_valid, yielded, save_failed, crash,
              fnVars, genVars>>

\* load_cases; return when there is no case; else results.json is written
\* with [] and the loop starts
MainLoad ==
  /\ pc = "main"
  /\ cases' = load_cases(file)
  /\ IF cases' = <<>>
     THEN /\ pc' = "main_done"
          /\ UNCHANGED <<results, results_file, case_idx>>
     ELSE /\ pc' = "main_loop"
          /\ results' = <<>>
          /\ results_file' = results_json(<<>>)
          /\ case_idx' = 1
  /\ UNCHANGED <<calls, mainRest>>

\* the pass ends in an exception nothing catches: the run is over
PassFaults(rank, asked, quest) ==
  /\ pc' = "main_fault"
  /\ calls' = Append(calls, [ranking |-> rank, asked |-> asked,
                             question |-> quest])
  /\ UNCHANGED <<results, results_file, case_idx>>

\* the pass appends its case_result and rewrites results.json
PassEnds(rank, ds, quest) ==
  /\ pc' = "main_loop"
  /\ calls' = Append(calls, [ranking |-> rank, asked |-> Str(ds[Len(ds)]),
                             question |-> quest])
  /\ results' = Append(results,
        CaseResult(case_idx, cases[case_idx], ds,
                   deductive_inference(quest.content.v)))
  /\ results_file' = results_json(results')
  /\ case_idx' = case_idx + 1

\* as PassRanked, with a fault for every list of fewer than 10 diagnoses
PassRanked_Checked(rank, ds, quest) ==
  IF Len(ds) < Ranked THEN PassFaults(rank, NoneV, SvcError)
  ELSE IF NoAnswer(quest) THEN PassFaults(rank, Str(ds[Len(ds)]), quest)
  ELSE PassEnds(rank, ds, quest)

\* from diseases = probabilistic_inference(...) on
PassRanked(rank, ds, quest) ==
  IF RankFault(ds) THEN PassFaults(rank, NoneV, SvcError)
  ELSE IF NoAnswer(quest) THEN PassFaults(rank, Str(ds[Len(ds)]), quest)
  ELSE PassEnds(rank, ds, quest)

\* one pass of the for loop
ProcessCase ==
  /\ pc = "main_loop"
  /\ case_idx <= Len(cases)
  /\ \E rank \in RankOutcomes, quest \in QuestionOutcomes :
       IF NoAnswer(rank) THEN PassFaults(rank, NoneV, SvcError)
       ELSE PassRanked(rank, probabilistic_inference(rank.content.v), quest)
  /\ UNCHANGED <<cases, mainRest>>

\* the loop is over: main returns
MainEnd ==
  /\ pc = "main_loop"
  /\ case_idx > Len(cases)
  /\ pc' = "main_done"
  /\ UNCHANGED <<cases, mainVars, mainRest>>

NextMain ==
  \/ MainLoad
  \/ ProcessCase
  \/ MainEnd

SpecMain == InitMain /\ [][NextMain]_vars

(***************************************************************************)
(* What the properties speak of, stated without the code's operators.      *)
(***************************************************************************)
\* x is a string that is not empty once the whitespace around it is removed
NonEmptyTrimmed(x) ==
  x.t = "str" /\ \E i \in 1..Len(x.v) : x.v[i] \notin {SP, TAB, NL}

\* x is a mapping with both required keys, both values non-empty trimmed
IsValidRecord(x) ==
  /\ x.t = "dict"
  /\ <<KV>> \in DOMAIN x.v
  /\ <<KD>> \in DOMAIN x.v
  /\ NonEmptyTrimmed(x.v[<<KV>>])
  /\ NonEmptyTrimmed(x.v[<<KD>>])

\* s without the characters of chars at its two ends
Trimmed(s, chars) ==
  LET keep == {i \in 1..Len(s) : s[i] \notin chars}
  IN  IF keep = {} THEN <<>>
      ELSE SubSeq(s, CHOOSE i \in keep : \A j \in keep : i <= j,
                     CHOOSE i \in keep : \A j \in keep : i >= j)

\* what follows the first colon of a line, the whole line when it has none
ValuePart(line) ==
  LET colons == {i \in 1..Len(line) : line[i] = COLON}
  IN  IF colons = {} THEN line
      ELSE SubSeq(line, 1 + (CHOOSE i \in colons : \A j \in colons : i <= j),
                  Len(line))

\* the line names the field, in either case
Names(line, field) == \E i \in 1..Len(line) : lowerChar(line[i]) = field

\* the line reads  field: "..."
IsFieldLine(line, field) ==
  /\ Len(line) >= 5
  /\ SubSeq(line, 1, 4) = <<field, COLON, SP, QUOTE>>
  /\ line[Len(line)] = QUOTE

\* the index of the last line that names the field, 0 when none does
LastNaming(ls, field) ==
  LET named == {i \in DOMAIN ls : Names(ls[i], field)}
  IN  IF named = {} THEN 0 ELSE CHOOSE i \in named : \A j \in named : i >= j

\* x occurs in y as a contiguous run of characters
IsSubstring(x, y) ==
  \E i \in 1..(Len(y) + 1) : \E j \in (i - 1)..Len(y) : SubSeq(y, i, j) = x

\* the candidate is a substring of an accepted label, or the other way
\* round, both case-folded
TooSimilar(candidate, accepted) ==
  \E k \in DOMAIN accepted :
     \/ IsSubstring(lower(candidate), lower(accepted[k]))
     \/ IsSubstring(lower(accepted[k]), lower(candidate))

\* the list load_cases would get from a corpus file
Persisted(f) == IF f.exists /\ f.intact THEN f.data ELSE <<>>

(***************************************************************************)
(* The properties.                                                         *)
(***************************************************************************)
\* C1: generate_case_for_disease never raises and always returns a record;
\* when none of its 3 attempts yielded a record that validates, the record
\* is exactly the placeholder for its label.
C1_NeverRaisesPlaceholder ==
  \A i \in DOMAIN task :
     /\ task[i].attempt = Attempts => task[i].done
     /\ task[i].done =>
          /\ task[i].out.kind = "return"
          /\ task[i].out.val.t = "dict"
          /\ {<<KV>>, <<KD>>} \subseteq DOMAIN task[i].out.val.v
          /\ first_valid[i] = NoneV =>
               /\ task[i].attempt = Attempts
               /\ task[i].out = Return(Placeholder(unique_diseases[i]))

\* C1 witness: a task went through 3 failed attempts and returned the
\* placeholder.
C1_Witness ==
  \E i \in DOMAIN task :
     /\ task[i].done
     /\ task[i].attempt = 3
     /\ first_valid[i] = NoneV
     /\ task[i].out = Return(Placeholder(unique_diseases[i]))

\* C2: generate_case_for_disease makes at most 3 requests per label; it
\* returns the record of the first response that parses and validates, and
\* makes no request after that one.
C2_FirstValidAtMostThree ==
  \A i \in DOMAIN task :
     /\ task[i].attempt <= Attempts
     /\ ~task[i].done => first_valid[i] = NoneV
     /\ (task[i].done /\ first_valid[i] # NoneV) =>
          /\ task[i].out = Return(first_valid[i])
          /\ IsValidRecord(task[i].out.val)

\* C2 witness: a task returned the record of its second response, the first
\* having failed.
C2_Witness ==
  \E i \in DOMAIN task :
     /\ task[i].done
     /\ task[i].attempt = 2
     /\ first_valid[i] # NoneV
     /\ task[i].out = Return(first_valid[i])

\* C3: when the run starts with a corpus whose count meets or exceeds the
\* target, no disease-list request and no case-generation request is
\* issued, and the corpus file stays as it was.
C3_ResumeIssuesNothing ==
  (pc # "start" /\ file0.exists /\ Len(file0.data) >= num_cases) =>
     /\ pc = "done"
     /\ ~disease_requested
     /\ task = <<>>
     /\ file = file0

\* C3 witness: a run that found as many cases as its target, and returned.
C3_Witness ==
  /\ pc = "done"
  /\ num_cases = 2
  /\ file0.exists
  /\ Len(file0.data) = 2
  /\ cases = file0.data

\* C4: after the N dispatched tasks complete, the corpus file holds exactly
\* N new records (the total equals the target) and the actual_diagnosis
\* labels of the new records are the dispatched labels, in any order.
C4_PersistedLabelsMatch ==
  (pc = "done" /\ task # <<>>) =>
     /\ Len(file.data) = num_cases
     /\ Len(file.data) - start_idx = Len(unique_diseases)
     /\ {file.data[k].v[<<KD>>].v : k \in (start_idx + 1)..Len(file.data)}
          = {unique_diseases[i] : i \in DOMAIN unique_diseases}

\* C5: validate_case returns true if and only if its argument is a mapping
\* with both keys whose values are non-empty after trimming, and returns
\* false for every other argument.
C5_ValidateCaseIff ==
  fn = "validate_case" =>
     res.kind = "return" /\ res.val = IsValidRecord(arg.val)

\* C6: every record appended to the corpus during a run, a model-produced
\* one or the placeholder, has both fields non-empty after trimming and
\* passes validate_case; so has every record the run wrote to the file.
C6_AppendedCasesValid ==
  /\ \A k \in (start_idx + 1)..Len(cases) :
        IsValidRecord(cases[k]) /\ Passes(validate_case(cases[k]))
  /\ pc # "start" =>
        \A k \in (start_idx + 1)..Len(file.data) : IsValidRecord(file.data[k])

\* C6 witness: a finished run that appended a placeholder and a record the
\* model produced.
C6_Witness ==
  /\ pc = "done"
  /\ \E k \in (start_idx + 1)..Len(cases) :
        cases[k].v[<<KV>>] = Str(<<FAILED>>)
  /\ \E k \in (start_idx + 1)..Len(cases) :
        cases[k].v[<<KV>>] # Str(<<FAILED>>)
  /\ file.data = cases

\* C7: no exception escapes parse_case_response: for every response, None
\* included, it returns a candidate record or None.
C7_ParserNeverRaises ==
  fn = "parse_case_response" =>
     /\ res.kind = "return"
     /\ res.val = NoneV \/ res.val.t = "dict"

\* C7 witness: the JSON of the response decoded to a record with a number
\* for a field, on which the validator raised inside the parser.
C7_Witness ==
  /\ fn = "parse_case_response"
  /\ arg.kind = "embedded"
  /\ arg.meta.obj.v[<<KV>>].t = "int"
  /\ JsonStep(arg.val) = Raise
  /\ res.kind = "return"

\* C8, as stated: for every JSON object with both required fields, embedded
\* in any surrounding prose, parse_case_response returns exactly that
\* object.
C8_RoundTripAnyProse ==
  (fn = "parse_case_response" /\ arg.kind = "embedded") =>
     res = Return(arg.meta.obj)

\* C8, amended: for every JSON object whose two required fields are strings
\* non-empty after trimming, embedded in prose with no "{" before it and no
\* "}" after it, parse_case_response returns exactly that object.
C8_RoundTripAmended ==
  ( /\ fn = "parse_case_response"
    /\ arg.kind = "embedded"
    /\ IsValidRecord(arg.meta.obj)
    /\ \A i \in DOMAIN arg.meta.pre : arg.meta.pre[i] # LBRACE
    /\ \A i \in DOMAIN arg.meta.post : arg.meta.post[i] # RBRACE )
  => res = Return(arg.meta.obj)

\* C8 witness: an object with a "}" inside a value, prose before and after
\* it, returned as it is.
C8_Witness ==
  /\ fn = "parse_case_response"
  /\ arg.kind = "embedded"
  /\ arg.meta.pre # <<>>
  /\ arg.meta.post # <<>>
  /\ arg.meta.obj.v[<<KV>>] = Str(<<"a", RBRACE, "b">>)
  /\ <<"a">> \in DOMAIN arg.meta.obj.v
  /\ res = Return(arg.meta.obj)

\* C9, as stated: for every non-JSON text with a line doctor_vignette: "X"
\* and a line actual_diagnosis: "Y", parse_case_response returns the record
\* of X and Y, each being what follows the first ":" of its line with the
\* surrounding quotes, whitespace and commas trimmed.
C9_FallbackAsStated ==
  (fn = "parse_case_response" /\ arg.kind = "lines") =>
     \A i, j \in DOMAIN arg.meta :
        (IsFieldLine(arg.meta[i], KV) /\ IsFieldLine(arg.meta[j], KD)) =>
           res = Return(Case(
                   Trimmed(ValuePart(arg.meta[i]), {QUOTE, COMMA, SP, TAB, NL}),
                   Trimmed(ValuePart(arg.meta[j]), {QUOTE, COMMA, SP, TAB, NL})))

\* C9, amended: for every text without JSON in which some line names
\* doctor_vignette and some line names actual_diagnosis (in either case),
\* each value is what follows the first ":" of the last line naming the
\* field, with the surrounding double quotes, spaces and commas (not tabs)
\* trimmed; parse_case_response returns the record of the two values when
\* both are non-empty, and None when one is empty.
C9_FallbackAmended ==
  ( /\ fn = "parse_case_response"
    /\ arg.kind = "lines"
    /\ LastNaming(arg.meta, KV) # 0
    /\ LastNaming(arg.meta, KD) # 0 )
  => LET x == Trimmed(ValuePart(arg.meta[LastNaming(arg.meta, KV)]),
                      {QUOTE, COMMA, SP})
         y == Trimmed(ValuePart(arg.meta[LastNaming(arg.meta, KD)]),
                      {QUOTE, COMMA, SP})
     IN  res = IF x # <<>> /\ y # <<>> THEN Return(Case(x, y))
               ELSE Return(NoneV)

\* C9 witness: two lines name doctor_vignette with different values, the
\* second one ends in a tab-free value, and a record is returned.
C9_Witness ==
  /\ fn = "parse_case_response"
  /\ arg.kind = "lines"
  /\ Len(arg.meta) = 3
  /\ arg.meta[1] = <<KV, COLON, SP, QUOTE, "a", QUOTE>>
  /\ arg.meta[2] = <<KD, COLON, SP, QUOTE, "c", QUOTE, TAB>>
  /\ arg.meta[3] = <<KVU, COLON, SP, QUOTE, "b", COLON, "a", QUOTE>>
  /\ res = Return(Case(<<"b", COLON, "a">>, <<"c", QUOTE, TAB>>))

\* C10, as stated: the candidate is rejected if, case-folded, it is a
\* substring of an accepted label or an accepted label is a substring of
\* it; otherwise it is accepted and added to the set.
C10_RejectOrAdd ==
  fn = "validate_diagnosis" =>
     /\ res.kind = "return"
     /\ IF TooSimilar(arg.val.v, arg.meta)
        THEN res.val = FALSE
        ELSE res.val = TRUE /\ InList(arg.val.v, diseases_to_avoid)

\* C10, amended: validate_diagnosis returns False if the candidate,
\* case-folded, is a substring of an accepted label or an accepted label is
\* a substring of it, and True otherwise; it leaves the list of accepted
\* labels as it was (adding an accepted label is left to the caller).
C10_RejectOrAccept ==
  fn = "validate_diagnosis" =>
     /\ res.kind = "return"
     /\ res.val = ~TooSimilar(arg.val.v, arg.meta)
     /\ diseases_to_avoid = arg.meta

\* C10 witness: a candidate that contains an accepted label in another case
\* is rejected.
C10_Witness ==
  /\ fn = "validate_diagnosis"
  /\ arg.val = Str(<<"b", SP, "A">>)
  /\ arg.meta = << <<"c">>, <<"a">> >>
  /\ res.kind = "return"
  /\ res.val = FALSE

\* C11: while generate_unique_diseases accumulates labels, and in the list
\* it returns, no two labels are substring-equivalent: neither contains the
\* other, letter case set aside.
C11_NoSubstringEquivalents ==
  /\ \A i, j \in DOMAIN diseases :
        i # j => ~TooSimilar(diseases[i], <<diseases[j]>>)
  /\ gen_result.kind = "return" =>
        \A i, j \in DOMAIN gen_result.val.v :
           i # j => ~TooSimilar(gen_result.val.v[i], <<gen_result.val.v[j]>>)

\* the list never exceeds n, no request was made for n = 0, and what is
\* returned is the first n of the distinct candidate lines seen
C12_StateOfLoop ==
  /\ Len(diseases) <= num_diseases
  /\ num_diseases = 0 => ~tick
  /\ gen_result.kind = "return" =>
        /\ Len(gen_result.val.v) = num_diseases
        /\ Len(seen) >= num_diseases
        /\ gen_result.val.v = SubSeq(seen, 1, num_diseases)
        /\ \A i, j \in DOMAIN gen_result.val.v :
              i # j => gen_result.val.v[i] # gen_result.val.v[j]
        /\ \A i \in DOMAIN gen_result.val.v :
              /\ gen_result.val.v[i] # <<>>
              /\ gen_result.val.v[i] = Trimmed(gen_result.val.v[i], {SP, TAB, NL})

\* a step that makes a request starts with fewer than n labels
C12_RequestBelowTarget ==
  tick' # tick => (Len(diseases) < num_diseases /\ gen_result.kind = "none")

\* C12: whenever generate_unique_diseases(n) returns, it returns exactly n
\* labels, pairwise distinct, each a non-blank line of a response without
\* the whitespace around it, in the order the lines first came across the
\* batches; it has not left the loop below n; and it makes a request only
\* while it holds fewer than n labels, so none for n = 0.
C12_ExactlyN == []C12_StateOfLoop /\ [][C12_RequestBelowTarget]_vars

\* C12 witness: a call for 3 labels returned a, b, c after a response that
\* repeated b, with blank lines and spaces around the labels.
C12_Witness ==
  /\ num_diseases = 3
  /\ gen_result.kind = "return"
  /\ gen_result.val.v = << <<"a">>, <<"b">>, <<"c">> >>
  /\ seen = gen_result.val.v

\* the call has returned only if n distinct lines were seen
C19_ReturnsOnlyWithEnough ==
  gen_result.kind = "return" => Len(seen) >= num_diseases

\* C19: generate_unique_diseases(n) has returned only if the responses so
\* far held at least n distinct non-blank lines, however many requests
\* failed (there is no cap: it goes on asking); and if the responses come
\* to hold at least n distinct non-blank lines, it does return.
C19_Liveness ==
  /\ []C19_ReturnsOnlyWithEnough
  /\ <>(Len(seen) >= num_diseases) => <>(gen_result.kind = "return")

\* C19 witness: a call for 2 labels returned after an even number of
\* requests, one of which at least brought nothing new.
C19_Witness ==
  /\ num_diseases = 2
  /\ gen_result.kind = "return"
  /\ gen_result.val.v = << <<"a">>, <<"b">> >>
  /\ Len(seen) = 2
  /\ ~tick

\* C13: at the start of every pipeline run the results file is reset to an
\* empty array, and after the k-th case was processed it holds exactly k
\* case results, in corpus order, numbered 1..k.
C13_ResultsFileTracksRun ==
  pc \in {"main_loop", "main_fault", "main_done"} =>
     /\ results_file.exists
     /\ results_file.data = results
     /\ pc = "main_loop" => Len(results) = case_idx - 1
     /\ \A k \in DOMAIN results :
           /\ results[k].case_number = k
           /\ results[k].doctor_vignette = cases[k].v[<<KV>>]
           /\ results[k].actual_diagnosis = cases[k].v[<<KD>>]

\* C14: for every case the pipeline processed, diseases holds the non-blank
\* lines of the ranking response without the whitespace around them,
\* least_likely_disease is the last of them (the 10th when there are 10)
\* and is the disease passed to deductive_inference, and
\* ruling_out_question is the text of the deductive response without the
\* whitespace around it.
C14_LeastLikelyIsLast ==
  /\ Len(results) <= Len(calls)
  /\ \A k \in DOMAIN results :
        /\ results[k].diseases = Candidates(calls[k].ranking)
        /\ results[k].least_likely_disease =
             results[k].diseases[Len(results[k].diseases)]
        /\ Len(results[k].diseases) = Ranked =>
             results[k].least_likely_disease = results[k].diseases[Ranked]
        /\ calls[k].asked = Str(results[k].least_likely_disease)
        /\ results[k].ruling_out_question =
             Trimmed(calls[k].question.content.v, {SP, TAB, NL})
        /\ results_file.data[k] = results[k]

\* C14 witness: a case whose ranking response had 10 lines, the last one
\* " z", and whose question came back as " a b" and a line feed.
C14_Witness ==
  \E k \in DOMAIN results :
     /\ Len(results[k].diseases) = 10
     /\ results[k].least_likely_disease = <<"z">>
     /\ results[k].ruling_out_question = <<"a", SP, "b">>
     /\ calls[k].question = SvcText(Str(<<SP, "a", SP, "b", NL>>))

\* C18, as stated: a ranking response with fewer than 10 diagnoses, or
\* none, ends the pass in an index fault that ends the run, the results
\* file keeping the results of the cases before.
C18_ShortOrEmptyFaults ==
  \A k \in DOMAIN calls :
     ( /\ ~NoAnswer(calls[k].ranking)
       /\ Len(Candidates(calls[k].ranking)) < Ranked )
     => /\ pc = "main_fault"
        /\ k = Len(calls)
        /\ Len(results) = k - 1
        /\ results_file = results_json(results)

\* C18, amended: the length of the ranked list is not validated.  A ranking
\* response with no non-blank line ends the pass in an index fault before
\* deductive_inference is called; nothing catches it, the run is over, and
\* the results file keeps the results of the cases before.  A response
\* with at least one non-blank line, however few, raises no fault: its last
\* line is the disease passed on.
C18_EmptyFaults ==
  \A k \in DOMAIN calls :
     ~NoAnswer(calls[k].ranking) =>
        IF Candidates(calls[k].ranking) = <<>>
        THEN /\ pc = "main_fault"
             /\ k = Len(calls)
             /\ calls[k].asked = NoneV
             /\ Len(results) = k - 1
             /\ results_file = results_json(results)
        ELSE /\ calls[k].asked.t = "str"
             /\ calls[k].asked.v =
                  Candidates(calls[k].ranking)[Len(Candidates(calls[k].ranking))]
             /\ ~NoAnswer(calls[k].question) =>
                  /\ k \in DOMAIN results
                  /\ Len(results[k].diseases) >= 1

\* C18 witness: the first case went through with a list of 2 diagnoses, the
\* second got a blank response and the run ended there.
C18_Witness ==
  /\ pc = "main_fault"
  /\ Len(calls) = 2
  /\ Len(results) = 1
  /\ Len(results[1].diseases) = 2
  /\ calls[2].ranking = SvcText(Str(<<NL, SP, TAB>>))
  /\ results_file = results_json(results)

\* C15: every completion the coordinator processes appends exactly one
\* record to the in-memory corpus and rewrites the whole file: after every
\* save the file equals the in-memory corpus, the records loaded at startup
\* stay as its prefix, and the new records are the results of the tasks in
\* the order as_completed yielded them, whatever the order of submission.
C15_SavedInCompletionOrder ==
  pc \in {"collect", "done"} =>
     /\ Len(yielded) = Cardinality(processed)
     /\ {yielded[k] : k \in DOMAIN yielded} = processed
     /\ Len(cases) = start_idx + Len(yielded)
     /\ SubSeq(cases, 1, start_idx) = load_cases(file0)
     /\ \A k \in DOMAIN yielded :
           cases[start_idx + k] = task[yielded[k]].out.val
     /\ IF yielded = <<>> THEN file = file0 ELSE file = save_cases(cases)

\* C15 witness: with two workers and one case loaded at startup, the task
\* submitted second was processed first, and the file holds the loaded case,
\* then the second task's record, then the first's.
C15_Witness ==
  /\ pc = "done"
  /\ max_workers = 2
  /\ start_idx = 1
  /\ yielded = <<2, 1>>
  /\ Len(file.data) = 3
  /\ file.data[1] = file0.data[1]
  /\ file.data[2] = task[2].out.val
  /\ file.data[3] = task[1].out.val
  /\ task[1].out.val # task[2].out.val

\* C20: the labels a run dispatches are none of the actual_diagnosis labels
\* of the cases it loaded, so the corpus never holds two cases generated for
\* the same label.
C20_DispatchedLabelsNew ==
  pc \in {"collect", "done"} =>
     \A i \in DOMAIN unique_diseases :
        \A k \in 1..start_idx :
           unique_diseases[i] # cases[k].v[<<KD>>].v

\* C16: when save_cases raises for one task, the coordinator catches the
\* exception and goes on: the run ends only after every dispatched task
\* has completed and been processed, every result is appended to the
\* in-memory corpus in the order processed, and each save after the failed
\* one writes the whole corpus, the record of the failed save included.
C16_FailureIsolated ==
  /\ pc \in {"collect", "done"} =>
        /\ Len(cases) = start_idx + Len(yielded)
        /\ \A k \in DOMAIN yielded :
              cases[start_idx + k] = task[yielded[k]].out.val
        /\ (yielded # <<>> /\ yielded[Len(yielded)] \notin save_failed) =>
              Persisted(file) = cases
  /\ (pc = "done" /\ start_idx < num_cases) =>
        /\ Len(task) = num_cases - start_idx
        /\ processed = DOMAIN task
        /\ \A i \in DOMAIN task : task[i].done /\ task[i].out.kind = "return"

\* C16 witness: of two tasks the save of the first one processed failed and
\* left the file undecodable; the run went on to the end and the file holds
\* both records after the loaded ones.
C16_Witness ==
  /\ pc = "done"
  /\ Len(yielded) = 2
  /\ save_failed = {yielded[1]}
  /\ Len(cases) = start_idx + 2
  /\ Persisted(file) = cases

\* C17: at any point of a run the corpus file holds the cases loaded at
\* startup followed by every result the coordinator has processed, so this
\* is what a kill leaves, the tasks in flight being lost; the next run with
\* the same target loads exactly that, dispatches target minus that count
\* tasks, and ends with exactly target records in the file.
C17_KillLosesInFlightOnly ==
  /\ pc \in {"collect", "done"} =>
        Persisted(file) = Persisted(file0) \o Processed
  /\ crash.n = 1 =>
        /\ Persisted(file0) = crash.startup \o crash.results
        /\ pc # "start" =>
              /\ start_idx = Len(Persisted(file0))
              /\ SubSeq(cases, 1, start_idx) = Persisted(file0)
        /\ (pc \in {"collect", "done"} /\ start_idx <= num_cases) =>
              Len(task) = num_cases - start_idx
        /\ (pc = "done" /\ start_idx <= num_cases) =>
              Len(Persisted(file)) = num_cases

\* C17 witness: a process that had loaded one case and dispatched two tasks
\* was killed after it processed one of them; the next run loaded the two
\* cases, dispatched one task and ended with the 3 cases of the target.
C17_Witness ==
  /\ crash.n = 1
  /\ Len(crash.startup) = 1
  /\ crash.tasks = 2
  /\ Len(crash.results) = 1
  /\ pc = "done"
  /\ num_cases = 3
  /\ start_idx = 2
  /\ Len(task) = 1
  /\ Len(file.data) = 3
  /\ SubSeq(file.data, 1, 2) = crash.startup \o crash.results

====
